---- MODULE Spec2Model ----
(***************************************************************************)
(* Model of pdf-md-scan.py: the conversion of a PDF's page/block/line/span *)
(* tree into Markdown lines, the term mining and the wikilink pass.        *)
(*                                                                         *)
(* Text is modelled as a sequence of tokens.  A token is either a maximal  *)
(* run of regex word characters (\w+) or a run of non-word characters      *)
(* (a space, a punctuation sign, a fence of three backquotes, "[[" ...).    *)
(* Every string operation of the program that the model needs (strip,      *)
(* startswith, join, len, lower, re.findall, re.sub with \b) is computed   *)
(* on these token sequences.                                               *)
(*                                                                         *)
(* Font sizes are fixed point: a raw span size is in hundredths of a       *)
(* point, a size rounded by round(fs, 1) is in tenths of a point.          *)
(*                                                                         *)
(* Lines 205-208 of the source have lost their indentation; they are read  *)
(* as the body of the "if OCR_ENABLED and USE_OCR:" of line 204.           *)
(***************************************************************************)
EXTENDS Integers, Sequences, FiniteSets, TLC

\* Largest number of blocks of a document.
MaxBlocks == 2

-----------------------------------------------------------------------------
\* Tokens

\* The maximal \w+ runs that occur in the texts of the model.
WordToks ==
  {"Network", "Security", "Report", "Overview", "This", "the", "py", "2024",
   "1", "OCR", "Extracted", "extracted_image_page1_image1", "png"}

IsWordTok(t) == t \in WordToks

\* \s
IsSpace(t) == t \in {" ", "\n"}

\* \d+
IsDigits(t) == t \in {"1", "2024"}

\* len() of a token
TokLen(t) ==
  CASE t \in {"Network"} -> 7
    [] t \in {"Security", "Overview"} -> 8
    [] t \in {"Report"} -> 6
    [] t \in {"This", "2024", "![]("} -> 4
    [] t \in {"the", "OCR", "png", "~~~"} -> 3
    [] t \in {"py", "[[", "]]"} -> 2
    [] t = "Extracted" -> 9
    [] t = "extracted_image_page1_image1" -> 28
    [] OTHER -> 1

\* str.lower() of a token
Lower(t) ==
  CASE t = "Network" -> "network"
    [] t = "Security" -> "security"
    [] t = "Report" -> "report"
    [] t = "Overview" -> "overview"
    [] t = "This" -> "this"
    [] t = "OCR" -> "ocr"
    [] t = "Extracted" -> "extracted"
    [] OTHER -> t

\* A token that \b[A-Za-z][A-Za-z0-9]+\b matches: a whole \w+ run that starts
\* with a letter, holds letters and digits only, and has two characters or more.
WordPattern(t) ==
  /\ IsWordTok(t)
  /\ ~IsDigits(t)
  /\ t # "extracted_image_page1_image1"
  /\ TokLen(t) >= 2

RECURSIVE TextLen(_)
TextLen(s) == IF s = <<>> THEN 0 ELSE TokLen(Head(s)) + TextLen(Tail(s))

RECURSIVE LStrip(_)
LStrip(s) == IF s # <<>> /\ IsSpace(Head(s)) THEN LStrip(Tail(s)) ELSE s

RECURSIVE RStrip(_)
RStrip(s) ==
  IF s # <<>> /\ IsSpace(s[Len(s)]) THEN RStrip(SubSeq(s, 1, Len(s) - 1)) ELSE s

Strip(s) == LStrip(RStrip(s))

RECURSIVE Rep(_, _)
Rep(t, n) == IF n <= 0 THEN <<>> ELSE <<t>> \o Rep(t, n - 1)

\* sep.join(parts)
RECURSIVE Join(_, _)
Join(sep, parts) ==
  IF parts = <<>> THEN <<>>
  ELSE IF Len(parts) = 1 THEN parts[1]
  ELSE parts[1] \o sep \o Join(sep, Tail(parts))

StartsWith(s, p) == Len(s) >= Len(p) /\ SubSeq(s, 1, Len(p)) = p

\* The token "~~~" stands for three backquotes (a TLA+ string cannot hold a
\* backquote).  Fence is the marker line; StartsWithFence is
\* line.startswith of three backquotes.
Fence == <<"~~~">>
StartsWithFence(s) == StartsWith(s, Fence)

\* A Python dict, in insertion order: a sequence of [k, v] entries.
DictHas(d, k) == \E i \in 1..Len(d) : d[i].k = k

DictGet(d, k, dflt) ==
  IF DictHas(d, k) THEN d[CHOOSE i \in 1..Len(d) : d[i].k = k].v ELSE dflt

DictPut(d, k, v) ==
  IF DictHas(d, k)
  THEN [i \in 1..Len(d) |-> IF d[i].k = k THEN [k |-> k, v |-> v] ELSE d[i]]
  ELSE Append(d, [k |-> k, v |-> v])

RECURSIVE DictKeys(_)
DictKeys(d) == IF d = <<>> THEN <<>> ELSE <<Head(d).k>> \o DictKeys(Tail(d))

-----------------------------------------------------------------------------
\* The document

\* font names, as the fragments the substring tests look for
Helvetica == <<"Helvetica">>
HelveticaBold == <<"Helvetica", "-", "Bold">>
Courier == <<"Courier">>

Span(size, font, color, x, text) ==
  [size |-> size, font |-> font, color |-> color, bbox |-> <<x, 0, 0, 0>>,
   text |-> text]

TextBlock(lines) == [type |-> 0, lines |-> lines]
Line(spans) == [spans |-> spans]

ImageBlock == [type |-> 1, number |-> 0, ext |-> "png", image |-> TRUE]

\* two lines in two sizes, the first colored and in a monospace font, both
\* with a list prefix
BlockTitles ==
  TextBlock(<<
    Line(<<Span(1796, Courier, 255, 0,
                <<"1", ")", " ", "Network", " ", "Security">>)>>),
    Line(<<Span(1400, HelveticaBold, 0, 0, <<"-", " ", "Security">>)>>) >>)

BlockBullet ==
  TextBlock(<< Line(<<Span(1400, Helvetica, 0, 0, <<"-", " ", "Security">>)>>) >>)

\* one line of two spans in two sizes
BlockMixed ==
  TextBlock(<<
    Line(<<Span(1204, Helvetica, 0, 0, <<"Overview">>),
           Span(1000, Helvetica, 0, 0,
                <<" ", "This", " ", "Network", " ", "Security", " ", "Report">>)>>) >>)

BlockBody ==
  TextBlock(<<
    Line(<<Span(1000, Helvetica, 0, 0, <<"Network", " ", "Security">>)>>),
    Line(<<Span(1000, Helvetica, 0, 0,
                <<"the", " ", "Network", " ", "Security", " ">>)>>) >>)

BlockBold ==
  TextBlock(<< Line(<<Span(1000, HelveticaBold, 0, 0, <<"Network", " ">>)>>) >>)

BlockNumbered ==
  TextBlock(<< Line(<<Span(1000, Helvetica, 0, 45,
                           <<"1", ")", " ", "Network">>)>>) >>)

BlockCode ==
  TextBlock(<<
    Line(<<Span(1000, Courier, 0, 0, <<"Network", " ", " ">>)>>),
    Line(<<Span(1000, Courier, 0, 0, <<"~~~", "py">>)>>) >>)

BlockCodeLine ==
  TextBlock(<< Line(<<Span(1000, Courier, 0, 0, <<" ", "Security">>)>>) >>)

BlockYear ==
  TextBlock(<< Line(<<Span(1100, Helvetica, 0, 0, <<"2024", " ", "Report">>)>>) >>)

Blocks ==
  {BlockTitles, BlockBullet, BlockMixed, BlockBody, BlockBold, BlockNumbered,
   BlockCode, BlockCodeLine, BlockYear, ImageBlock}

\* The blocks of a document in reading order: the pages' block lists one after
\* the other, as the loops of lines 106 and 111 visit them.
Docs == UNION {[1..n -> Blocks] : n \in 0..MaxBlocks}

\* What pytesseract.image_to_string can return for an image.
OcrRaw == {<<"\n">>, <<"Security", "\n">>}

-----------------------------------------------------------------------------
\* detect_headings_style

\* The base size returned for a document without text spans (None).
NoneSize == -1

\* round(fs, 1): hundredths of a point to tenths, ties to the even tenth.
Round1(h) ==
  LET q == h \div 10
      r == h % 10
  IN  IF r > 5 \/ (r = 5 /\ q % 2 = 1) THEN q + 1 ELSE q

RECURSIVE Flatten(_)
Flatten(ss) == IF ss = <<>> THEN <<>> ELSE Head(ss) \o Flatten(Tail(ss))

\* The spans in the order the four nested loops visit them.
SpanStream(d) ==
  Flatten([i \in 1..Len(d) |->
             IF d[i].type = 0
             THEN Flatten([j \in 1..Len(d[i].lines) |-> d[i].lines[j].spans])
             ELSE <<>>])

RECURSIVE SizeCounts(_, _)
SizeCounts(spans, size_counts) ==
  IF spans = <<>> THEN size_counts
  ELSE LET fs_key == Round1(Head(spans).size)
       IN  SizeCounts(Tail(spans),
                      DictPut(size_counts, fs_key,
                              DictGet(size_counts, fs_key, 0)
                                + TextLen(Head(spans).text)))

\* max(size_counts, key=size_counts.get): the first key, in insertion order,
\* that no later key beats.
RECURSIVE MaxFrom(_, _, _)
MaxFrom(d, i, best) ==
  IF i > Len(d) THEN d[best].k
  ELSE MaxFrom(d, i + 1, IF d[i].v > d[best].v THEN i ELSE best)

MaxKey(d) == MaxFrom(d, 2, 1)

\* a comparison that also takes a size of exactly 1.1 times the base size
IsHeadingSizeOrEqual(sz, base_size) == sz * 10 >= base_size * 11

\* sz > base_size * 1.1, on tenths of a point
IsHeadingSize(sz, base_size) == sz * 10 > base_size * 11

RECURSIVE InsertSize(_, _)
InsertSize(s, x) ==
  IF s = <<>> THEN <<x>>
  ELSE IF Head(s) >= x THEN <<Head(s)>> \o InsertSize(Tail(s), x)
  ELSE <<x>> \o s

\* list.sort(reverse=True)
RECURSIVE SortSizes(_)
SortSizes(s) ==
  IF s = <<>> THEN <<>>
  ELSE InsertSize(SortSizes(SubSeq(s, 1, Len(s) - 1)), s[Len(s)])

HeadingSizes(size_counts, base_size) ==
  SortSizes(SelectSeq(DictKeys(size_counts),
                      LAMBDA sz : IsHeadingSize(sz, base_size)))

detect_headings_style(d) ==
  LET size_counts == SizeCounts(SpanStream(d), <<>>)
  IN  IF size_counts = <<>>
      THEN [base_size |-> NoneSize, heading_sizes |-> <<>>]
      ELSE [base_size |-> MaxKey(size_counts),
            heading_sizes |-> HeadingSizes(size_counts, MaxKey(size_counts))]

\* a level map that gives every heading size a level
LevelMapAllSizes(hs) ==
  [i \in 1..Len(hs) |-> [k |-> hs[i], v |-> IF i = 1 THEN 3 ELSE 4]]

\* level_map: the largest heading size is H3, the second largest H4
LevelMap(hs) ==
  LET m1 == IF Len(hs) >= 1 THEN DictPut(<<>>, hs[1], 3) ELSE <<>>
  IN  IF Len(hs) > 1 THEN DictPut(m1, hs[2], 4) ELSE m1

-----------------------------------------------------------------------------
\* The loop body of extract_pdf_to_markdown: one line, one image block

\* frag in font_name
Contains(name, frag) == \E i \in 1..Len(name) : name[i] = frag

MonoFonts == {"Courier", "Consolas", "Mono"}

\* The bullet glyphs of line 152 other than "*" and "-": U+2022, U+25E6, U+25AA.
Glyphs == {"U+2022", "U+25E6", "U+25AA"}

IsBullet(stripped) ==
  \/ StartsWith(stripped, <<"*", " ">>)
  \/ StartsWith(stripped, <<"-", " ">>)
  \/ (stripped # <<>> /\ stripped[1] \in Glyphs)

\* re.match(r"^(\d+)[\.\)]\s+", stripped)
IsNumbered(stripped) ==
  /\ Len(stripped) >= 3
  /\ IsDigits(stripped[1])
  /\ stripped[2] \in {".", ")"}
  /\ IsSpace(stripped[3])

\* re.sub(r'^(\*|-|bullet glyphs|\d+[\.\)])\s*', '', stripped)
ListContent(stripped) ==
  IF stripped # <<>> /\ stripped[1] \in ({"*", "-"} \cup Glyphs)
  THEN LStrip(Tail(stripped))
  ELSE IF Len(stripped) >= 2 /\ IsDigits(stripped[1]) /\ stripped[2] \in {".", ")"}
  THEN LStrip(SubSeq(stripped, 3, Len(stripped)))
  ELSE stripped

\* md_lines.append(line); emitted records which rule appended it and, for a
\* text line, the rounded first-span size and the text of the line.
Emit(st, out, rule, size, text) ==
  [st EXCEPT !.md_lines = Append(@, out),
             !.emitted = Append(@, [rule |-> rule, size |-> size, text |-> text])]

Collect(st, text) ==
  [st EXCEPT !.collected_text_for_links = Append(@, text)]

LastStartsWithFence(md) == md # <<>> /\ StartsWithFence(md[Len(md)])

\* lines 128-134
HeadingRule(st, level, font_size, line_text) ==
  Collect(Emit(st, Rep("#", level) \o <<" ">> \o Strip(line_text),
               "heading", font_size, line_text),
          Strip(line_text))

\* lines 136-140
SubheadingRule(st, font_size, line_text) ==
  Collect(Emit(st, <<"#", "#", "#", "#", " ">> \o Strip(line_text),
               "subheading", font_size, line_text),
          Strip(line_text))

\* lines 143-170
ListRule(st, font_size, line_text, left_x) ==
  LET stripped == Strip(line_text)
      indent_level == left_x \div 20
      marker == IF IsBullet(stripped) THEN <<"-">> ELSE <<stripped[1], ".">>
      indent == Rep(" ", 4 * (IF indent_level > 0 THEN indent_level ELSE 0))
      content == ListContent(stripped)
  IN  Collect(Emit(st, indent \o marker \o <<" ">> \o content,
                   "list", font_size, line_text),
              content)

\* lines 175-186
CodeRule(st, font_size, line_text) ==
  LET opened == IF ~LastStartsWithFence(st.md_lines)
                THEN Emit(st, Fence, "open", NoneSize, <<>>)
                ELSE st
  IN  Emit(opened, RStrip(line_text), "code", font_size, line_text)

\* lines 187-195
TextRule(st, font_size, line_text) ==
  LET md == st.md_lines
      closed == IF LastStartsWithFence(md) /\ md[Len(md)] # Fence
                THEN Emit(st, Fence, "close", NoneSize, <<>>)
                ELSE st
  IN  Collect(Emit(closed, RStrip(line_text), "text", font_size, line_text),
              RStrip(line_text))

\* "".join([span.get("text", "") for span in spans])
LineText(line) == Flatten([i \in 1..Len(line.spans) |-> line.spans[i].text])

\* lines 115-195: one line of a text block
ProcessLine(st, line, base_font_size, level_map) ==
  LET spans == line.spans
  IN  IF spans = <<>> THEN st
      ELSE
        LET line_text == LineText(line)
            first_span == spans[1]
            font_size == Round1(first_span.size)
            font_name == first_span.font
            font_color == first_span.color
            is_bold == Contains(font_name, "Bold")
            stripped == Strip(line_text)
        IN  IF DictHas(level_map, font_size)
            THEN HeadingRule(st, DictGet(level_map, font_size, 0), font_size,
                             line_text)
            ELSE IF font_size = base_font_size /\ (is_bold \/ font_color # 0)
            THEN SubheadingRule(st, font_size, line_text)
            ELSE IF IsBullet(stripped) \/ IsNumbered(stripped)
            THEN ListRule(st, font_size, line_text, first_span.bbox[1])
            ELSE IF \E mono \in MonoFonts : Contains(font_name, mono)
            THEN CodeRule(st, font_size, line_text)
            ELSE TextRule(st, font_size, line_text)

RECURSIVE ProcessLines(_, _, _, _)
ProcessLines(st, lines, base_font_size, level_map) ==
  IF lines = <<>> THEN st
  ELSE ProcessLines(ProcessLine(st, Head(lines), base_font_size, level_map),
                    Tail(lines), base_font_size, level_map)

\* save_image: the file name, or <<>> (None) when the block holds no bytes or
\* the file cannot be written.  The image blocks of the model are image 0 of
\* page 0.
save_image(block, writable) ==
  IF ~block.image \/ ~writable THEN <<>>
  ELSE <<"extracted_image_page1_image1", ".", block.ext>>

\* ocr_image_to_text
ocr_image_to_text(ocr_enabled, raw) == IF ~ocr_enabled THEN <<>> ELSE Strip(raw)

\* lines 196-208: one image block
ProcessImage(st, block, writable, ocr_enabled, use_ocr, raw) ==
  LET img_path == save_image(block, writable)
  IN  IF img_path = <<>> THEN st
      ELSE
        LET withImage == Emit(st, <<"![](">> \o img_path \o <<")">>,
                              "image", NoneSize, <<>>)
            ocr_text == ocr_image_to_text(ocr_enabled, raw)
        IN  IF ocr_enabled /\ use_ocr /\ ocr_text # <<>>
            THEN Collect(Emit(withImage,
                              <<">", " ", "OCR", " ", "Extracted", ":", " ">>
                                \o ocr_text,
                              "ocr", NoneSize, <<>>),
                         ocr_text)
            ELSE withImage

\* lines 209-211
CloseFence(st) ==
  LET md == st.md_lines
  IN  IF LastStartsWithFence(md) /\ md[Len(md)] # Fence
      THEN Emit(st, Fence, "close", NoneSize, <<>>)
      ELSE st

-----------------------------------------------------------------------------
\* Term mining, lines 213-241

Stopwords ==
  {"the", "and", "or", "of", "to", "a", "in", "is", "for", "on", "with",
   "this", "that", "by", "are"}

\* not (len(w) < 4 or w.lower() in stopwords)
PassesFilter(t) == TokLen(t) >= 4 /\ Lower(t) \notin Stopwords

\* re.findall(r"\b[A-Za-z][A-Za-z0-9]+\b", text)
Words(text) == SelectSeq(text, WordPattern)

\* re.findall(r"\b\w+\b", text)
Tokens(text) == SelectSeq(text, IsWordTok)

\* lines 222-228; a candidate key is the text of the term
RECURSIVE CountWords(_, _)
CountWords(words, candidates) ==
  IF words = <<>> THEN candidates
  ELSE LET w == Head(words)
       IN  CountWords(Tail(words),
                      IF ~PassesFilter(w) THEN candidates
                      ELSE DictPut(candidates, <<w>>,
                                   DictGet(candidates, <<w>>, 0) + 1))

\* the filter of line 235 on the two tokens of a phrase
PhraseFilter(t1, t2) == PassesFilter(t1) /\ PassesFilter(t2)

\* lines 231-236
RECURSIVE CountPhrases(_, _, _)
CountPhrases(tokens, i, candidates) ==
  IF i > Len(tokens) - 1 THEN candidates
  ELSE LET phrase == <<tokens[i], " ", tokens[i + 1]>>
       IN  CountPhrases(tokens, i + 1,
                        IF PhraseFilter(tokens[i], tokens[i + 1])
                        THEN DictPut(candidates, phrase,
                                     DictGet(candidates, phrase, 0) + 1)
                        ELSE candidates)

Candidates(text) == CountPhrases(Tokens(text), 1, CountWords(Words(text), <<>>))

RECURSIVE InsertTerm(_, _)
InsertTerm(s, x) ==
  IF s = <<>> THEN <<x>>
  ELSE IF TextLen(Head(s)) >= TextLen(x) THEN <<Head(s)>> \o InsertTerm(Tail(s), x)
  ELSE <<x>> \o s

\* link_terms.sort(key=len, reverse=True): stable, longest first
RECURSIVE SortTerms(_)
SortTerms(s) ==
  IF s = <<>> THEN <<>>
  ELSE InsertTerm(SortTerms(SubSeq(s, 1, Len(s) - 1)), s[Len(s)])

\* lines 239-241
LinkTerms(candidates) ==
  SortTerms(DictKeys(SelectSeq(candidates, LAMBDA e : e.v >= 2)))

-----------------------------------------------------------------------------
\* The wikilink pass, lines 243-264

IsW(line, i) == i >= 1 /\ i <= Len(line) /\ IsWordTok(line[i])

\* \b between token i and token i + 1
Boundary(line, i) == IsW(line, i) # IsW(line, i + 1)

\* r"\b" + re.escape(term) + r"\b" matches at token i
MatchAt(term, line, i) ==
  /\ i + Len(term) - 1 <= Len(line)
  /\ SubSeq(line, i, i + Len(term) - 1) = term
  /\ Boundary(line, i - 1)
  /\ Boundary(line, i + Len(term) - 1)

\* repl, lines 259-262
repl(found) ==
  IF ~StartsWith(found, <<"[[">>) THEN <<"[[">> \o found \o <<"]]">> ELSE found

\* re.sub(pattern, repl, line): the matches from left to right, not overlapping
RECURSIVE Sub(_, _, _)
Sub(term, line, i) ==
  IF i > Len(line) THEN <<>>
  ELSE IF MatchAt(term, line, i)
  THEN repl(term) \o Sub(term, line, i + Len(term))
  ELSE <<line[i]>> \o Sub(term, line, i + 1)

\* the loop of line 254
RECURSIVE ApplyTerms(_, _)
ApplyTerms(line, terms) ==
  IF terms = <<>> THEN line
  ELSE ApplyTerms(Sub(Head(terms), line, 1), Tail(terms))

OcrPrefix == <<">", " ", "OCR", " ", "Extracted">>

\* the three continue of lines 246-253
Skipped(md, idx) ==
  \/ StartsWithFence(md[idx])
  \/ (idx > 1 /\ md[idx - 1] = Fence)
  \/ StartsWith(md[idx], OcrPrefix)

RECURSIVE PassFrom(_, _, _)
PassFrom(md, idx, terms) ==
  IF idx > Len(md) THEN md
  ELSE PassFrom(IF Skipped(md, idx) THEN md
                ELSE [md EXCEPT ![idx] = ApplyTerms(md[idx], terms)],
                idx + 1, terms)

WikilinkPass(md, terms) == PassFrom(md, 1, terms)

-----------------------------------------------------------------------------
\* Tags, lines 266-283

\* the keywords of the tag vocabulary that the lower-cased token holds
KeywordsIn(t) ==
  CASE Lower(t) = "security" -> {"security"}
    [] Lower(t) = "network" -> {"network"}
    [] OTHER -> {}

HasKeyword(text, kw) == \E i \in 1..Len(text) : kw \in KeywordsIn(text[i])

\* sorted(tags)
SortedTags(text) ==
  SelectSeq(<<"#assessment", "#compliance", "#methodology", "#network",
              "#security", "#vulnerability">>,
            LAMBDA tag :
              \/ tag = "#assessment" /\ HasKeyword(text, "assessment")
              \/ tag = "#compliance" /\ HasKeyword(text, "compliance")
              \/ tag = "#methodology"
                   /\ (HasKeyword(text, "methodology") \/ HasKeyword(text, "methods"))
              \/ tag = "#network" /\ HasKeyword(text, "network")
              \/ tag = "#security" /\ HasKeyword(text, "security")
              \/ tag = "#vulnerability" /\ HasKeyword(text, "vulnerability"))

\* "\n" + " ".join(sorted(tags))
TagLine(sorted_tags) ==
  <<"\n">> \o Join(<<" ">>, [i \in 1..Len(sorted_tags) |-> <<sorted_tags[i]>>])

-----------------------------------------------------------------------------
\* The program

VARIABLES
  pc,                        \* where the script is
  OCR_ENABLED,               \* lines 12-17: pytesseract and PIL were imported
  USE_OCR,                   \* line 20, set from --ocr at line 304
  password,                  \* --password, "None" when absent
  needs_pass,                \* doc.needs_pass
  authenticated,             \* what doc.authenticate returned
  doc,                       \* the blocks of the opened document
  base_font_size,
  heading_sizes,
  level_map,
  block_idx,                 \* the next block of the loops of lines 106-111
  md_lines,
  collected_text_for_links,
  emitted,                   \* for each line of md_lines, what appended it
  text_for_analysis,
  link_terms,
  out_opened,                \* open(output_file, "w") succeeded
  out_written,               \* out.write succeeded
  result,                    \* what extract_pdf_to_markdown returned
  exit_code

vars ==
  <<pc, OCR_ENABLED, USE_OCR, password, needs_pass, authenticated, doc,
    base_font_size, heading_sizes, level_map, block_idx, md_lines,
    collected_text_for_links, emitted, text_for_analysis, link_terms,
    out_opened, out_written, result, exit_code>>

Init ==
  /\ pc = "cli"
  /\ OCR_ENABLED \in BOOLEAN
  /\ USE_OCR = FALSE
  /\ password = "None"
  /\ needs_pass = FALSE
  /\ authenticated = "not called"
  /\ doc = <<>>
  /\ base_font_size = NoneSize
  /\ heading_sizes = <<>>
  /\ level_map = <<>>
  /\ block_idx = 1
  /\ md_lines = <<>>
  /\ collected_text_for_links = <<>>
  /\ emitted = <<>>
  /\ text_for_analysis = <<>>
  /\ link_terms = <<>>
  /\ out_opened = FALSE
  /\ out_written = FALSE
  /\ result = "none"
  /\ exit_code = -1

\* lines 297-311: the arguments are parsed and extract_pdf_to_markdown is called
Main ==
  /\ pc = "cli"
  /\ \E ocr \in BOOLEAN, p \in {"None", "secret"} :
       /\ USE_OCR' = ocr
       /\ password' = p
  /\ pc' = "open"
  /\ UNCHANGED <<OCR_ENABLED, needs_pass, authenticated, doc, base_font_size,
                 heading_sizes, level_map, block_idx, md_lines,
                 collected_text_for_links, emitted, text_for_analysis,
                 link_terms, out_opened, out_written, result, exit_code>>

\* lines 78-82
OpenPdf ==
  /\ pc = "open"
  /\ \/ /\ result' = "False"
        /\ pc' = "exit"
        /\ UNCHANGED <<doc, needs_pass>>
     \/ /\ \E d \in Docs, np \in BOOLEAN :
             /\ doc' = d
             /\ needs_pass' = np
        /\ pc' = "auth"
        /\ UNCHANGED result
  /\ UNCHANGED <<OCR_ENABLED, USE_OCR, password, authenticated, base_font_size,
                 heading_sizes, level_map, block_idx, md_lines,
                 collected_text_for_links, emitted, text_for_analysis,
                 link_terms, out_opened, out_written, exit_code>>

\* an authentication step that goes on after a rejected password
AuthenticateNoReturn ==
  /\ pc = "auth"
  /\ \/ /\ ~needs_pass
        /\ UNCHANGED authenticated
     \/ /\ needs_pass
        /\ password # "None"
        /\ authenticated' \in {"True", "False"}
  /\ pc' = "detect"
  /\ UNCHANGED <<OCR_ENABLED, USE_OCR, password, needs_pass, doc, base_font_size,
                 heading_sizes, level_map, block_idx, md_lines,
                 collected_text_for_links, emitted, text_for_analysis,
                 link_terms, out_opened, out_written, result, exit_code>>

\* lines 84-90
Authenticate ==
  /\ pc = "auth"
  /\ \/ /\ ~needs_pass
        /\ pc' = "detect"
        /\ UNCHANGED <<authenticated, result>>
     \/ /\ needs_pass
        /\ password = "None"
        /\ result' = "False"
        /\ pc' = "exit"
        /\ UNCHANGED authenticated
     \/ /\ needs_pass
        /\ password # "None"
        /\ authenticated' = "False"
        /\ result' = "False"
        /\ pc' = "exit"
     \/ /\ needs_pass
        /\ password # "None"
        /\ authenticated' = "True"
        /\ pc' = "detect"
        /\ UNCHANGED result
  /\ UNCHANGED <<OCR_ENABLED, USE_OCR, password, needs_pass, doc, base_font_size,
                 heading_sizes, level_map, block_idx, md_lines,
                 collected_text_for_links, emitted, text_for_analysis,
                 link_terms, out_opened, out_written, exit_code>>

\* lines 93-104
DetectHeadings ==
  /\ pc = "detect"
  /\ LET style == detect_headings_style(doc)
     IN  /\ base_font_size' = style.base_size
         /\ heading_sizes' = style.heading_sizes
         /\ level_map' = LevelMap(style.heading_sizes)
  /\ pc' = "pages"
  /\ UNCHANGED <<OCR_ENABLED, USE_OCR, password, needs_pass, authenticated, doc,
                 block_idx, md_lines, collected_text_for_links, emitted,
                 text_for_analysis, link_terms, out_opened, out_written, result,
                 exit_code>>

State ==
  [md_lines |-> md_lines, collected_text_for_links |-> collected_text_for_links,
   emitted |-> emitted]

SetState(st) ==
  /\ md_lines' = st.md_lines
  /\ collected_text_for_links' = st.collected_text_for_links
  /\ emitted' = st.emitted

\* lines 113-195: the next block is a text block
ProcessTextBlock ==
  /\ pc = "pages"
  /\ block_idx <= Len(doc)
  /\ doc[block_idx].type = 0
  /\ SetState(ProcessLines(State, doc[block_idx].lines, base_font_size, level_map))
  /\ block_idx' = block_idx + 1
  /\ UNCHANGED <<pc, OCR_ENABLED, USE_OCR, password, needs_pass, authenticated,
                 doc, base_font_size, heading_sizes, level_map,
                 text_for_analysis, link_terms, out_opened, out_written, result,
                 exit_code>>

\* lines 196-208: the next block is an image block
ProcessImageBlock ==
  /\ pc = "pages"
  /\ block_idx <= Len(doc)
  /\ doc[block_idx].type = 1
  /\ \E writable \in BOOLEAN, raw \in OcrRaw :
       SetState(ProcessImage(State, doc[block_idx], writable, OCR_ENABLED,
                             USE_OCR, raw))
  /\ block_idx' = block_idx + 1
  /\ UNCHANGED <<pc, OCR_ENABLED, USE_OCR, password, needs_pass, authenticated,
                 doc, base_font_size, heading_sizes, level_map,
                 text_for_analysis, link_terms, out_opened, out_written, result,
                 exit_code>>

\* lines 209-211: the loops are over
FinishPages ==
  /\ pc = "pages"
  /\ block_idx > Len(doc)
  /\ SetState(CloseFence(State))
  /\ pc' = "mine"
  /\ UNCHANGED <<OCR_ENABLED, USE_OCR, password, needs_pass, authenticated, doc,
                 base_font_size, heading_sizes, level_map, block_idx,
                 text_for_analysis, link_terms, out_opened, out_written, result,
                 exit_code>>

\* lines 213-241
MineTerms ==
  /\ pc = "mine"
  /\ text_for_analysis' = Join(<<" ">>, collected_text_for_links)
  /\ link_terms' = LinkTerms(Candidates(Join(<<" ">>, collected_text_for_links)))
  /\ pc' = "link"
  /\ UNCHANGED <<OCR_ENABLED, USE_OCR, password, needs_pass, authenticated, doc,
                 base_font_size, heading_sizes, level_map, block_idx, md_lines,
                 collected_text_for_links, emitted, out_opened, out_written,
                 result, exit_code>>

\* lines 243-264
AnnotateLines ==
  /\ pc = "link"
  /\ md_lines' = WikilinkPass(md_lines, link_terms)
  /\ pc' = "tags"
  /\ UNCHANGED <<OCR_ENABLED, USE_OCR, password, needs_pass, authenticated, doc,
                 base_font_size, heading_sizes, level_map, block_idx,
                 collected_text_for_links, emitted, text_for_analysis,
                 link_terms, out_opened, out_written, result, exit_code>>

\* lines 266-283
InferTags ==
  /\ pc = "tags"
  /\ LET sorted_tags == SortedTags(text_for_analysis)
     IN  IF sorted_tags # <<>>
         THEN SetState(Emit(State, TagLine(sorted_tags), "tags", NoneSize, <<>>))
         ELSE UNCHANGED <<md_lines, collected_text_for_links, emitted>>
  /\ pc' = "write"
  /\ UNCHANGED <<OCR_ENABLED, USE_OCR, password, needs_pass, authenticated, doc,
                 base_font_size, heading_sizes, level_map, block_idx,
                 text_for_analysis, link_terms, out_opened, out_written, result,
                 exit_code>>

\* lines 285-294
WriteOutput ==
  /\ pc = "write"
  /\ \/ /\ out_opened' = TRUE
        /\ out_written' = TRUE
        /\ result' = "True"
     \/ /\ out_opened' = TRUE
        /\ result' = "False"
        /\ UNCHANGED out_written
     \/ /\ result' = "False"
        /\ UNCHANGED <<out_opened, out_written>>
  /\ pc' = "exit"
  /\ UNCHANGED <<OCR_ENABLED, USE_OCR, password, needs_pass, authenticated, doc,
                 base_font_size, heading_sizes, level_map, block_idx, md_lines,
                 collected_text_for_links, emitted, text_for_analysis,
                 link_terms, exit_code>>

\* line 312
Exit ==
  /\ pc = "exit"
  /\ exit_code' = IF result = "True" THEN 0 ELSE 1
  /\ pc' = "done"
  /\ UNCHANGED <<OCR_ENABLED, USE_OCR, password, needs_pass, authenticated, doc,
                 base_font_size, heading_sizes, level_map, block_idx, md_lines,
                 collected_text_for_links, emitted, text_for_analysis,
                 link_terms, out_opened, out_written, result>>

Next ==
  \/ Main
  \/ OpenPdf
  \/ Authenticate
  \/ DetectHeadings
  \/ ProcessTextBlock
  \/ ProcessImageBlock
  \/ FinishPages
  \/ MineTerms
  \/ AnnotateLines
  \/ InferTags
  \/ WriteOutput
  \/ Exit

Spec == Init /\ [][Next]_vars

-----------------------------------------------------------------------------
\* Properties

LineRules == {"heading", "subheading", "list", "code", "text"}
BodyRules == {"heading", "subheading", "list", "text"}

CountRule(rule) == Cardinality({i \in 1..Len(emitted) : emitted[i].rule = rule})

\* every page has been processed and md_lines is complete
PagesDone == pc \in {"mine", "link", "tags", "write"}

\* C1. Fence balance: when md_lines is complete, as many fence-open markers
\* as fence-close markers have been appended to it.
C1_FenceBalance ==
  PagesDone => CountRule("open") = CountRule("close")

RECURSIVE NestedFrom(_, _, _)
NestedFrom(line, i, depth) ==
  IF i > Len(line) THEN FALSE
  ELSE LET d == IF line[i] = "[[" THEN depth + 1
                ELSE IF line[i] = "]]" THEN depth - 1
                ELSE depth
       IN  d > 1 \/ NestedFrom(line, i + 1, d)

\* C2. After the wikilink pass no line holds a bracketed term inside another
\* bracketed term.
C2_NoNestedBrackets ==
  pc \in {"tags", "write"} =>
    \A i \in 1..Len(md_lines) : ~NestedFrom(md_lines[i], 1, 0)

\* C3. Annotation is idempotent: the wikilink pass applied to the lines it has
\* already annotated, with the same terms, changes no line.
C3_Idempotent ==
  pc = "tags" => WikilinkPass(md_lines, link_terms) = md_lines

\* the text lines of the blocks processed so far, in reading order
ProcessedLines ==
  Flatten([i \in 1..(block_idx - 1) |->
             IF doc[i].type = 0
             THEN SelectSeq(doc[i].lines, LAMBDA l : l.spans # <<>>)
             ELSE <<>>])

EmittedLines == SelectSeq(emitted, LAMBDA e : e.rule \in LineRules)

\* C4. Every text line is emitted once, in order; a line whose first-span size
\* is the largest heading size is emitted by the heading rule as "### " and
\* its stripped text, one of the second largest heading size as "#### " and its
\* stripped text, whatever its font, color and text; a line of a third or lower
\* heading size is never emitted by the heading rule.
C4_HeadingBySize ==
  pc \in {"pages", "mine", "link"} =>
    /\ Len(EmittedLines) = Len(ProcessedLines)
    /\ \A n \in 1..Len(EmittedLines) :
         /\ EmittedLines[n].size = Round1(ProcessedLines[n].spans[1].size)
         /\ EmittedLines[n].text = LineText(ProcessedLines[n])
    /\ \A i \in 1..Len(emitted) :
         emitted[i].rule \in LineRules =>
           /\ (Len(heading_sizes) >= 1 /\ emitted[i].size = heading_sizes[1]) =>
                /\ emitted[i].rule = "heading"
                /\ md_lines[i] = <<"#", "#", "#", " ">> \o Strip(emitted[i].text)
           /\ (Len(heading_sizes) >= 2 /\ emitted[i].size = heading_sizes[2]) =>
                /\ emitted[i].rule = "heading"
                /\ md_lines[i] = <<"#", "#", "#", "#", " ">> \o Strip(emitted[i].text)
           /\ (\E k \in 3..Len(heading_sizes) : emitted[i].size = heading_sizes[k]) =>
                emitted[i].rule # "heading"

\* A document with three heading sizes has been processed: its line of the
\* largest size is in a monospace font, colored and numbered like a list item,
\* its line of the second size is bold and starts with a bullet, and it has a
\* line of the third size.
C4_Witness ==
  /\ pc = "mine"
  /\ Len(heading_sizes) >= 3
  /\ \E i, j, k \in 1..Len(emitted) :
       /\ emitted[i].size = heading_sizes[1]
       /\ IsNumbered(Strip(emitted[i].text))
       /\ md_lines[i] = <<"#", "#", "#", " ">> \o Strip(emitted[i].text)
       /\ emitted[j].size = heading_sizes[2]
       /\ IsBullet(Strip(emitted[j].text))
       /\ md_lines[j] = <<"#", "#", "#", "#", " ">> \o Strip(emitted[j].text)
       /\ emitted[k].size = heading_sizes[3]
       /\ emitted[k].rule = "text"

\* the span stream of the document and its size-to-weight table
Stream == SpanStream(doc)

RoundedSizes == {Round1(Stream[i].size) : i \in 1..Len(Stream)}

RECURSIVE SumLen(_, _)
SumLen(n, sz) ==
  IF n = 0 THEN 0
  ELSE SumLen(n - 1, sz)
         + (IF Round1(Stream[n].size) = sz THEN TextLen(Stream[n].text) ELSE 0)

WeightOf(sz) == SumLen(Len(Stream), sz)

FirstSeen(sz) ==
  CHOOSE i \in 1..Len(Stream) :
    /\ Round1(Stream[i].size) = sz
    /\ \A j \in 1..(i - 1) : Round1(Stream[j].size) # sz

Heaviest == {sz \in RoundedSizes : \A o \in RoundedSizes : WeightOf(o) <= WeightOf(sz)}

\* C5. Right after the call, detect_headings_style has returned as body size a size of maximum weight, the
\* one seen first in the scan when several tie, and as heading sizes exactly
\* the sizes greater than 1.1 times the body size, each once, in strictly
\* descending order.
C5_HeadingStyle ==
  pc = "pages" /\ block_idx = 1 /\ Stream # <<>> =>
    /\ base_font_size \in Heaviest
    /\ \A m \in Heaviest : FirstSeen(base_font_size) <= FirstSeen(m)
    /\ {heading_sizes[i] : i \in 1..Len(heading_sizes)}
         = {sz \in RoundedSizes : sz * 10 > base_font_size * 11}
    /\ \A i, j \in 1..Len(heading_sizes) :
         i < j => heading_sizes[i] > heading_sizes[j]

\* The style of a document with a single heaviest size, a heading size and a
\* size above the body size that is no heading size has been detected.
C5_Witness ==
  /\ pc = "pages"
  /\ Cardinality(Heaviest) = 1
  /\ Len(heading_sizes) >= 1
  /\ \E sz \in RoundedSizes :
       sz > base_font_size /\ \A i \in 1..Len(heading_sizes) : heading_sizes[i] # sz

AuthFailed == needs_pass /\ (password = "None" \/ authenticated = "False")

\* C6. When the source is encrypted and the password is missing or rejected,
\* extract_pdf_to_markdown returns False, the process exits with code 1 and
\* the output file is never opened or written; the output file is written only
\* after open and authentication succeeded and every block was processed.
C6_AuthFailureIsFatal ==
  /\ AuthFailed =>
       /\ ~out_opened /\ ~out_written
       /\ pc \in {"auth", "exit", "done"}
       /\ pc \in {"exit", "done"} => result = "False"
       /\ pc = "done" => exit_code = 1
  /\ out_written =>
       /\ ~needs_pass \/ authenticated = "True"
       /\ block_idx > Len(doc)
       /\ result = "True"

\* The script has exited after the password of an encrypted source was
\* rejected.
C6_Witness ==
  /\ pc = "done"
  /\ needs_pass
  /\ authenticated = "False"
  /\ exit_code = 1
  /\ ~out_written

\* C7. One fence pair per run: a fence-open marker is never appended between
\* two consecutive code lines.
C7_OneOpenPerRun ==
  \A i \in 2..Len(emitted) :
    emitted[i].rule = "open" => emitted[i - 1].rule # "code"

\* C8. Fence-close-first: a heading, subheading, list, plain-text or image
\* line is never appended right after a code line; a fence-close marker comes
\* between them.
C8_CloseBeforeBody ==
  \A i \in 2..Len(emitted) :
    emitted[i].rule \in (BodyRules \cup {"image"}) => emitted[i - 1].rule # "code"

\* C9. The wikilink pass keeps the number of lines, leaves every fence marker,
\* code line and OCR note as it is, and applies the terms to every heading,
\* subheading, list and plain-text line.
C9_PassChangesBodyOnly ==
  pc = "link" =>
    LET out == WikilinkPass(md_lines, link_terms)
    IN  /\ Len(out) = Len(md_lines)
        /\ \A i \in 1..Len(md_lines) :
             /\ emitted[i].rule \in {"open", "close", "code", "ocr"} =>
                  out[i] = md_lines[i]
             /\ emitted[i].rule \in BodyRules =>
                  out[i] = ApplyTerms(md_lines[i], link_terms)

Occurrences(term, text) ==
  Cardinality({i \in 1..Len(text) :
                 /\ i + Len(term) - 1 <= Len(text)
                 /\ SubSeq(text, i, i + Len(term) - 1) = term})

FilteredWord(t) == WordPattern(t) /\ TokLen(t) >= 4 /\ Lower(t) \notin Stopwords

\* C10. Every qualifying term occurs at least twice in the joined text and is
\* one word-pattern token of four characters or more that is no stopword, or
\* two such tokens joined by one space.
C10_QualifyingTerms ==
  pc \in {"link", "tags", "write"} =>
    \A n \in 1..Len(link_terms) :
      LET term == link_terms[n]
      IN  /\ Occurrences(term, text_for_analysis) >= 2
          /\ \/ Len(term) = 1 /\ FilteredWord(term[1])
             \/ /\ Len(term) = 3
                /\ term[2] = " "
                /\ FilteredWord(term[1])
                /\ FilteredWord(term[3])

====
